---- MODULE Spec2Model ----
(***************************************************************************)
(* State-machine model of src/src/main.js (the prism demo): the prism      *)
(* group's orientation and its three writers (control panel, pointer drag, *)
(* animation tick), the shape toggle, the bi-pyramid gap and the shared    *)
(* glass material.                                                         *)
(*                                                                         *)
(* Numbers are fixed point.  Angles are in milliradians (0.001 rad), the   *)
(* auto-rotate speed in tenths (0.1), lengths in units of 0.0005, material *)
(* parameters in tenths.  Pointer coordinates are pixels.                  *)
(***************************************************************************)
EXTENDS Integers, FiniteSets

\* ------------------------------------------------------------------ bounds

\* Animation ticks taken in one run of the model.
MaxTicks == 2

\* Pointer moves applied to the orientation in one run of the model.
MaxMoves == 2

\* ------------------------------------------------------- program constants

\* Math.PI in milliradians.
Pi == 3142

\* 0.005 rad per pixel of drag, in milliradians per pixel.
DragSensitivity == 5

\* 0.01 rad per unit of speed and tick: 1 milliradian per tenth of speed.
TickConstant == 1

\* biPyramidHeight = 1.5 * 1.3 = 1.95, in units of 0.0005.
biPyramidHeight == 3900

\* The initial biPyramidGap, 0.15, in units of 0.0005.
InitialGap == 300

\* The initial settings.autoRotateSpeed, 0.3, in tenths.
InitialSpeed == 3

\* ------------------------------------------------------------------ inputs

ShapeNames == {"Single Pyramid", "Bi-Pyramid"}

\* Values of the three rotation sliders, each ranging over [-Pi, Pi].
PanelAngles == {Pi}

\* Values of the 'Rotate Speed' slider (0.1 .. 2), in tenths.
PanelSpeeds == {InitialSpeed, 20}

\* Values of the 'Bi-Pyramid Gap' slider (0 .. 1), in units of 0.0005; the
\* slider moves in steps of 0.001, so every value is even.
GapValues == {0, InitialGap, 2000}

\* Pointer positions (clientX, clientY) of the events delivered.
MousePositions == {[x |-> 100, y |-> 100], [x |-> 110, y |-> 115]}

Meshes == {"singlePyramid", "upperPyramid", "lowerPyramid"}

MaterialParams == {"transmission", "ior", "dispersion", "thickness", "roughness"}

\* The value a 'Glass Properties' slider can write to each parameter, in tenths
\* (dispersion 7.5, ...), besides the value it starts with.
MaterialWrites ==
  [transmission |-> 5, ior |-> 15, dispersion |-> 75, thickness |-> 20, roughness |-> 3]

VARIABLES
  rotation,               \* prismGroup.rotation
  settings,               \* the settings record
  display,                \* the angles the three rotation controllers show
  isDragging,
  previousMousePosition,
  visible,                \* singlePyramidGroup.visible, biPyramidGroup.visible
  biPyramidGap,
  positionY,              \* upperPyramid.position.y, lowerPyramid.position.y
  materials,              \* the material instances, by handle
  meshMaterial,           \* the material handle each mesh references
  particlesRotationY,     \* particles.rotation.y, in units of 0.0001
  pointer,                \* the host's pointer: over the canvas, button held
  lastPointer,            \* history: where the last mousedown or drag move was
  run,                    \* history: the current run of auto-rotating ticks
  nMoves                  \* history: pointer moves applied so far

vars ==
  <<rotation, settings, display, isDragging, previousMousePosition, visible,
    biPyramidGap, positionY, materials, meshMaterial, particlesRotationY,
    pointer, lastPointer, run, nMoves>>

sceneVars == <<visible, biPyramidGap, positionY>>
materialVars == <<materials, meshMaterial>>
dragVars == <<isDragging, previousMousePosition>>

\* -------------------------------------------------------------- pure parts

\* A construction that gives the lower pyramid a copy of the material.
GlassConstructionCloned ==
  [materials |->
     [h \in {"glassMaterial", "glassMaterialClone"} |->
        [transmission |-> 10, roughness |-> 0, thickness |-> 50,
         ior |-> 20, dispersion |-> 50]],
   meshMaterial |->
     [m \in Meshes |->
        IF m = "lowerPyramid" THEN "glassMaterialClone" ELSE "glassMaterial"]]

\* The one MeshPhysicalMaterial and the material each mesh is constructed with.
GlassConstruction ==
  [materials |->
     [h \in {"glassMaterial"} |->
        [transmission |-> 10, roughness |-> 0, thickness |-> 50,
         ior |-> 20, dispersion |-> 50]],
   meshMaterial |-> [m \in Meshes |-> "glassMaterial"]]

\* A gap update that moves the upper pyramid only.
GapOffsetsUpperOnly(gap) ==
  [upper |-> biPyramidHeight \div 2 + gap \div 2,
   lower |-> -(biPyramidHeight \div 2 + InitialGap \div 2)]

\* position.y of the upper and of the lower pyramid for a gap.
GapOffsets(gap) ==
  [upper |-> biPyramidHeight \div 2 + gap \div 2,
   lower |-> -(biPyramidHeight \div 2 + gap \div 2)]

\* A switch that never hides the bi-pyramid.
ShapeVisibilityBiStays(shapeName) ==
  [single |-> (shapeName = "Single Pyramid"), bi |-> TRUE]

\* The visibility flags setActiveShape leaves.
ShapeVisibility(shapeName) ==
  [single |-> (shapeName = "Single Pyramid"),
   bi |-> (shapeName = "Bi-Pyramid")]

\* A tick that ignores the drag flag.
AutoRotatesIgnoringDrag(sett, dragging) == sett.autoRotate

\* Whether a tick auto-rotates.
AutoRotates(sett, dragging) == sett.autoRotate /\ ~dragging

\* A tick that advances by ten times the step.
AnimateRotationTenfold(rot, speed) == [rot EXCEPT !.y = @ + speed * TickConstant * 10]

\* A tick that advances the X angle as well.
AnimateRotationXY(rot, speed) ==
  [rot EXCEPT !.y = @ + speed * TickConstant, !.x = @ + speed * TickConstant]

\* prismGroup.rotation after a tick that auto-rotates.
AnimateRotation(rot, speed) == [rot EXCEPT !.y = @ + speed * TickConstant]

\* The settings record after a tick has written the Y angle back.
TickWriteBack(sett, rot) == [sett EXCEPT !.prismRotateY = rot.y]

\* Whether the mousemove handler returns at once.
MoveNeverIgnored(dragging) == FALSE

MoveIgnored(dragging) == ~dragging

\* A drag with the axes exchanged.
DragRotationSwapped(rot, prev, ev) ==
  [rot EXCEPT !.x = @ + (ev.x - prev.x) * DragSensitivity,
              !.y = @ + (ev.y - prev.y) * DragSensitivity]

\* prismGroup.rotation after a mousemove at ev, the previous position being prev.
DragRotation(rot, prev, ev) ==
  [rot EXCEPT !.y = @ + (ev.x - prev.x) * DragSensitivity,
              !.x = @ + (ev.y - prev.y) * DragSensitivity]

\* A write-back that forgets the X angle.
DragWriteBackYOnly(sett, rot) == [sett EXCEPT !.prismRotateY = rot.y]

\* The settings record after a drag has written both angles back.
DragWriteBack(sett, rot) ==
  [sett EXCEPT !.prismRotateY = rot.y, !.prismRotateX = rot.x]

\* gui.controllersRecursive().forEach(c => c.updateDisplay()): every rotation
\* controller shows the value its settings field holds.
UpdateDisplay(sett) ==
  [x |-> sett.prismRotateX, y |-> sett.prismRotateY, z |-> sett.prismRotateZ]

\* ------------------------------------------------------------------- Init

Init ==
  /\ rotation = [x |-> Pi \div 6, y |-> Pi \div 4, z |-> 0]
  /\ settings = [shape |-> "Bi-Pyramid",
                 prismRotateX |-> Pi \div 6,
                 prismRotateY |-> Pi \div 4,
                 prismRotateZ |-> 0,
                 autoRotate |-> TRUE,
                 autoRotateSpeed |-> InitialSpeed,
                 biPyramidGap |-> InitialGap]
  /\ display = UpdateDisplay(settings)
  /\ isDragging = FALSE
  /\ previousMousePosition = [x |-> 0, y |-> 0]
  /\ visible = [single |-> FALSE, bi |-> TRUE]
  /\ biPyramidGap = InitialGap
  /\ positionY = [upper |-> biPyramidHeight \div 2 + InitialGap \div 2,
                  lower |-> -(biPyramidHeight \div 2 + InitialGap \div 2)]
  /\ materials = GlassConstruction.materials
  /\ meshMaterial = GlassConstruction.meshMaterial
  /\ particlesRotationY = 0
  /\ pointer \in [inside : BOOLEAN, down : {FALSE}]
  /\ lastPointer = [x |-> 0, y |-> 0]
  /\ run = [start |-> Pi \div 4, n |-> 0]
  /\ nMoves = 0

\* ---------------------------------------------------------- panel actions

\* 'Type': the controller stores v in settings.shape and calls setActiveShape.
SetActiveShape(v) ==
  /\ settings' = [settings EXCEPT !.shape = v]
  /\ visible' = ShapeVisibility(v)
  /\ UNCHANGED <<rotation, display, dragVars, biPyramidGap, positionY,
                 materialVars, particlesRotationY, pointer, lastPointer, run,
                 nMoves>>

\* 'Bi-Pyramid Gap': the controller stores v and calls updateBiPyramidGap.
UpdateBiPyramidGap(v) ==
  /\ settings' = [settings EXCEPT !.biPyramidGap = v]
  /\ biPyramidGap' = v
  /\ positionY' = GapOffsets(v)
  /\ UNCHANGED <<rotation, display, dragVars, visible, materialVars,
                 particlesRotationY, pointer, lastPointer, run, nMoves>>

\* 'Rotate X': the controller stores v, the callback sets the group's angle,
\* the controller redraws itself.
PanelRotateX(v) ==
  /\ settings' = [settings EXCEPT !.prismRotateX = v]
  /\ rotation' = [rotation EXCEPT !.x = v]
  /\ display' = [display EXCEPT !.x = v]
  /\ UNCHANGED <<dragVars, sceneVars, materialVars, particlesRotationY,
                 pointer, lastPointer, run, nMoves>>

PanelRotateY(v) ==
  /\ settings' = [settings EXCEPT !.prismRotateY = v]
  /\ rotation' = [rotation EXCEPT !.y = v]
  /\ display' = [display EXCEPT !.y = v]
  /\ run' = [start |-> v, n |-> 0]
  /\ UNCHANGED <<dragVars, sceneVars, materialVars, particlesRotationY,
                 pointer, lastPointer, nMoves>>

PanelRotateZ(v) ==
  /\ settings' = [settings EXCEPT !.prismRotateZ = v]
  /\ rotation' = [rotation EXCEPT !.z = v]
  /\ display' = [display EXCEPT !.z = v]
  /\ UNCHANGED <<dragVars, sceneVars, materialVars, particlesRotationY,
                 pointer, lastPointer, run, nMoves>>

\* 'Auto Rotate': no callback, the controller stores the flag.
PanelAutoRotate(b) ==
  /\ settings' = [settings EXCEPT !.autoRotate = b]
  /\ UNCHANGED <<rotation, display, dragVars, sceneVars, materialVars,
                 particlesRotationY, pointer, lastPointer, run, nMoves>>

\* 'Rotate Speed': no callback, the controller stores the speed.
PanelRotateSpeed(s) ==
  /\ settings' = [settings EXCEPT !.autoRotateSpeed = s]
  /\ run' = [start |-> rotation.y, n |-> 0]
  /\ UNCHANGED <<rotation, display, dragVars, sceneVars, materialVars,
                 particlesRotationY, pointer, lastPointer, nMoves>>

\* A 'Glass Properties' slider: the controller writes glassMaterial[p].
MaterialWrite(p, v) ==
  /\ materials' = [materials EXCEPT !["glassMaterial"][p] = v]
  /\ UNCHANGED <<rotation, settings, display, dragVars, sceneVars, meshMaterial,
                 particlesRotationY, pointer, lastPointer, run, nMoves>>

\* -------------------------------------------------------- pointer actions

\* mousedown on the canvas at ev.
MouseDown(ev) ==
  /\ pointer.inside /\ ~pointer.down
  /\ pointer' = [pointer EXCEPT !.down = TRUE]
  /\ isDragging' = TRUE
  /\ previousMousePosition' = [x |-> ev.x, y |-> ev.y]
  /\ lastPointer' = ev
  /\ UNCHANGED <<rotation, settings, display, sceneVars, materialVars,
                 particlesRotationY, run, nMoves>>

\* mousemove on the canvas at ev.  nMoves < MaxMoves bounds the run of the
\* model.
MouseMove(ev) ==
  /\ pointer.inside
  /\ IF MoveIgnored(isDragging)
     THEN UNCHANGED <<rotation, settings, display, previousMousePosition,
                      lastPointer, run, nMoves>>
     ELSE /\ nMoves < MaxMoves
          /\ nMoves' = nMoves + 1
          /\ rotation' = DragRotation(rotation, previousMousePosition, ev)
          /\ settings' = DragWriteBack(settings, rotation')
          /\ display' = UpdateDisplay(settings')
          /\ previousMousePosition' = [x |-> ev.x, y |-> ev.y]
          /\ lastPointer' = ev
          /\ run' = [start |-> rotation'.y, n |-> 0]
  /\ UNCHANGED <<isDragging, sceneVars, materialVars, particlesRotationY,
                 pointer>>

\* mouseup on the canvas.
MouseUp ==
  /\ pointer.inside /\ pointer.down
  /\ pointer' = [pointer EXCEPT !.down = FALSE]
  /\ isDragging' = FALSE
  /\ UNCHANGED <<rotation, settings, display, previousMousePosition, sceneVars,
                 materialVars, particlesRotationY, lastPointer, run, nMoves>>

\* mouseleave: the pointer leaves the canvas, the button as it is.
MouseLeave ==
  /\ pointer.inside
  /\ pointer' = [pointer EXCEPT !.inside = FALSE]
  /\ isDragging' = FALSE
  /\ UNCHANGED <<rotation, settings, display, previousMousePosition, sceneVars,
                 materialVars, particlesRotationY, lastPointer, run, nMoves>>

\* The pointer comes back over the canvas: no listener is registered.
PointerEnter ==
  /\ ~pointer.inside
  /\ pointer' = [pointer EXCEPT !.inside = TRUE]
  /\ UNCHANGED <<rotation, settings, display, dragVars, sceneVars, materialVars,
                 particlesRotationY, lastPointer, run, nMoves>>

\* The button is released off the canvas: the canvas receives no mouseup.
ReleaseOutside ==
  /\ ~pointer.inside /\ pointer.down
  /\ pointer' = [pointer EXCEPT !.down = FALSE]
  /\ UNCHANGED <<rotation, settings, display, dragVars, sceneVars, materialVars,
                 particlesRotationY, lastPointer, run, nMoves>>

\* ------------------------------------------------------------ the tick

\* animate(): one frame.  The first conjunct bounds the run of the model.
Animate ==
  /\ particlesRotationY < MaxTicks
  /\ IF AutoRotates(settings, isDragging)
     THEN /\ rotation' = AnimateRotation(rotation, settings.autoRotateSpeed)
          /\ settings' = TickWriteBack(settings, rotation')
     ELSE UNCHANGED <<rotation, settings>>
  /\ particlesRotationY' = particlesRotationY + 1
  /\ run' = IF settings.autoRotate /\ ~isDragging
            THEN [run EXCEPT !.n = @ + 1]
            ELSE run
  /\ UNCHANGED <<display, dragVars, sceneVars, materialVars, pointer,
                 lastPointer, nMoves>>

\* ---------------------------------------------------------- specifications

PanelOrientation ==
  \/ \E v \in PanelAngles : PanelRotateX(v)
  \/ \E v \in PanelAngles : PanelRotateY(v)
  \/ \E v \in PanelAngles : PanelRotateZ(v)
  \/ \E b \in BOOLEAN : PanelAutoRotate(b)
  \/ \E s \in PanelSpeeds : PanelRotateSpeed(s)

PointerEvents ==
  \/ \E ev \in MousePositions : MouseDown(ev)
  \/ \E ev \in MousePositions : MouseMove(ev)
  \/ MouseUp
  \/ MouseLeave
  \/ PointerEnter
  \/ ReleaseOutside

ShapeControls ==
  \/ \E v \in ShapeNames : SetActiveShape(v)
  \/ \E v \in GapValues : UpdateBiPyramidGap(v)

GlassControls ==
  \E p \in MaterialParams : \E v \in {MaterialWrites[p]} : MaterialWrite(p, v)

\* The three writers of the orientation: the panel, the drag, the tick.
Next ==
  \/ PanelOrientation
  \/ PointerEvents
  \/ Animate

Spec == Init /\ [][Next]_vars

\* The scene: the shape, the gap and the glass controls, with the tick, the
\* start and the end of a drag and the X and Z sliders beside them.
NextScene ==
  \/ ShapeControls
  \/ GlassControls
  \/ Animate
  \/ \E ev \in MousePositions : MouseDown(ev)
  \/ MouseUp
  \/ \E v \in PanelAngles : PanelRotateX(v)
  \/ \E v \in PanelAngles : PanelRotateZ(v)

SpecScene == Init /\ [][NextScene]_vars

\* ------------------------------------------------------------------ claims

\* A step is a tick exactly when particles.rotation.y advances.
TickStep == particlesRotationY' = particlesRotationY + 1

\* A step is a mousedown exactly when the button goes down over the canvas.
MouseDownStep == ~pointer.down /\ pointer'.down

\* A step is a mousemove that was applied exactly when nMoves advances.
DragStep == nMoves' = nMoves + 1

\* C1: after every write by the panel, the drag or the tick, each angle
\* stored in the settings record equals the prism group's angle.
C1_SettingsEqualRotation ==
  /\ settings.prismRotateX = rotation.x
  /\ settings.prismRotateY = rotation.y
  /\ settings.prismRotateZ = rotation.z

\* C1's case: the panel has set Z, a drag has moved X and Y and a tick has
\* auto-rotated since.
C1_Witness ==
  /\ rotation.z = Pi
  /\ nMoves > 0
  /\ rotation.x = Pi \div 6 + 75
  /\ run.n > 0

\* C2: after any handler the panel shows, for each angle, the value the
\* settings record stores.
C2_PanelNeverStale ==
  /\ display.x = settings.prismRotateX
  /\ display.y = settings.prismRotateY
  /\ display.z = settings.prismRotateZ

\* C3: the bi-pyramid is visible at the start; in every state exactly one of
\* the two groups is visible, the one settings.shape names (the last call's
\* input); a call that repeats the shape leaves the flags as they are.
C3_ExactlyOneVisible ==
  /\ visible.bi /\ ~visible.single
  /\ [](/\ visible.single # visible.bi
        /\ visible.single = (settings.shape = "Single Pyramid")
        /\ visible.bi = (settings.shape = "Bi-Pyramid"))
  /\ [][settings'.shape = settings.shape => visible' = visible]_vars

\* C3's case: setActiveShape('Single Pyramid') has run.
C3_Witness == settings.shape = "Single Pyramid" /\ visible.single /\ ~visible.bi

\* C4: for the stored gap g (0 and 1 included), twice the upper offset is
\* height + g, the lower offset is its negative, and the gap the offsets
\* derive from is the one the settings record holds.
C4_GapOffsets ==
  /\ biPyramidGap \in 0..2000
  /\ 2 * positionY.upper = biPyramidHeight + biPyramidGap
  /\ 2 * positionY.lower = -(biPyramidHeight + biPyramidGap)
  /\ positionY.lower = -positionY.upper
  /\ settings.biPyramidGap = biPyramidGap

\* C4's case: updateBiPyramidGap(1) has run.
C4_Witness == biPyramidGap = 2000 /\ positionY.upper = 2950

\* C5: a tick with autoRotate on and no drag active adds s * 0.01 rad (s
\* milliradians for a speed of s tenths) to rotation.y, and a tick during a
\* drag adds nothing; so after n such ticks since the last drag move, panel
\* write of Y or change of speed, rotation.y is n * s * 0.01 above where
\* the run began.
C5_AutoRotateStep ==
  /\ [](rotation.y = run.start + run.n * settings.autoRotateSpeed)
  /\ [][TickStep =>
          /\ (settings.autoRotate /\ ~isDragging
                => rotation'.y = rotation.y + settings.autoRotateSpeed)
          /\ (isDragging => rotation'.y = rotation.y)]_vars

\* C5's case: two ticks have auto-rotated at the initial speed.
C5_Witness ==
  /\ run.n = 2
  /\ particlesRotationY = 2
  /\ rotation.y = Pi \div 4 + 2 * InitialSpeed

\* C6 as claimed: a tick between a mousedown and the release of the button
\* leaves rotation.y as it is, also after the pointer has left the canvas.
C6_SuppressedWhileButtonDown ==
  [][TickStep /\ pointer.down => rotation'.y = rotation.y]_vars

\* C6 amended: a mousedown starts a drag, the drag lasts until the next
\* mouseup or mouseleave (every step that leaves the pointer where it is
\* keeps it), and a tick during the drag leaves rotation.y as it is.
C6_SuppressedWhileDragging ==
  [][/\ (MouseDownStep => isDragging')
     /\ (isDragging /\ pointer' = pointer => isDragging')
     /\ (TickStep /\ isDragging => rotation'.y = rotation.y)]_vars

\* C6's case: a tick has run during a drag, after a move, autoRotate on.
C6_Witness ==
  /\ isDragging
  /\ settings.autoRotate
  /\ nMoves = 1
  /\ particlesRotationY = 1
  /\ rotation.y = Pi \div 4 + 50

\* C7: during a drag previousMousePosition is the position of the last
\* mousedown or mousemove; a mousemove at (x, y) adds 0.005 * (x - px) rad to
\* rotation.y and 0.005 * (y - py) rad to rotation.x and records (x, y); from
\* (100,100) to (110,115) that is 0.05 and 0.075.
C7_DragDelta ==
  /\ [](isDragging => /\ previousMousePosition.x = lastPointer.x
                      /\ previousMousePosition.y = lastPointer.y)
  /\ [][DragStep =>
          /\ rotation'.y = rotation.y + 5 * (lastPointer'.x - lastPointer.x)
          /\ rotation'.x = rotation.x + 5 * (lastPointer'.y - lastPointer.y)
          /\ previousMousePosition'.x = lastPointer'.x
          /\ previousMousePosition'.y = lastPointer'.y
          /\ ((lastPointer = [x |-> 100, y |-> 100]
                 /\ lastPointer' = [x |-> 110, y |-> 115])
                => (rotation'.y = rotation.y + 50
                      /\ rotation'.x = rotation.x + 75))]_vars

\* C7's case: mousedown at (100,100), then a mousemove to (110,115).
C7_Witness ==
  /\ isDragging
  /\ nMoves = 1
  /\ previousMousePosition = [x |-> 110, y |-> 115]
  /\ rotation.y = Pi \div 4 + 50
  /\ rotation.x = Pi \div 6 + 75

\* C8: the controller starts Idle, only a mousedown makes it Dragging, a
\* mouseup or a mouseleave makes it Idle, and a mousemove changes the
\* orientation only while Dragging.
C8_IdleMovesIgnored ==
  /\ ~isDragging
  /\ [][/\ (DragStep => isDragging)
        /\ (~isDragging /\ isDragging' => MouseDownStep)
        /\ (pointer.inside /\ pointer.down /\ ~pointer'.down => ~isDragging')
        /\ (pointer.inside /\ ~pointer'.inside => ~isDragging')]_vars

\* C8's case: a drag has moved the prism and ended with a mouseup, the
\* pointer still over the canvas.
C8_Witness ==
  /\ ~isDragging
  /\ nMoves > 0
  /\ pointer.inside
  /\ ~pointer.down

\* C9: the three meshes reference the one material the 'Glass Properties'
\* controls write, so each parameter reads the same on every mesh, whichever
\* shape is visible.
C9_SharedMaterial ==
  \A m \in Meshes :
    /\ meshMaterial[m] = "glassMaterial"
    /\ \A n \in Meshes : \A p \in MaterialParams :
         materials[meshMaterial[m]][p] = materials[meshMaterial[n]][p]

\* C9's case: dispersion was set to 7.5 and the single pyramid is visible.
C9_Witness ==
  /\ materials["glassMaterial"].dispersion = 75
  /\ visible.single

\* C10: a tick leaves the X and Z angles of the group and of the settings
\* record, the active shape, the gap and the drag state as they are.
C10_TickChangesOnlyY ==
  [][TickStep =>
       /\ rotation'.x = rotation.x
       /\ rotation'.z = rotation.z
       /\ settings'.prismRotateX = settings.prismRotateX
       /\ settings'.prismRotateZ = settings.prismRotateZ
       /\ settings'.shape = settings.shape
       /\ visible' = visible
       /\ settings'.biPyramidGap = settings.biPyramidGap
       /\ biPyramidGap' = biPyramidGap
       /\ positionY' = positionY
       /\ isDragging' = isDragging
       /\ previousMousePosition' = previousMousePosition]_vars

\* C10's case: ticks have run, one of them auto-rotating, with the single
\* pyramid active, the gap at 0, X and Z set by the panel and a drag begun.
C10_Witness ==
  /\ particlesRotationY = 2
  /\ rotation.y = Pi \div 4 + InitialSpeed
  /\ visible.single
  /\ biPyramidGap = 0
  /\ rotation.x = Pi
  /\ rotation.z = Pi
  /\ isDragging

====
